---- MODULE Spec2Model ----
(***************************************************************************)
(* A model of src/ui/popup_tool.js: the YAML block parser (parseYAML), the *)
(* serializer (stringifyYAML), the pop-up matcher (findExistingStack), the *)
(* template engine (deepApplyTemplate) and the batch driver (processGrid). *)
(*                                                                         *)
(* Text is a sequence of characters, each character a one-element string   *)
(* atom.  A value of the program is a record [t, v]:                       *)
(*   null  v = <<>>            bool  v = <<"T">> or <<"F">>                *)
(*   num   v = the digits String(number) prints                            *)
(*   str   v = its characters                                              *)
(*   seq   v = its elements    map   v = its <<key, value>> entries in     *)
(*                                   insertion order                      *)
(*   ref   v = <<id>>, a reference to the container heap[id]               *)
(*   error v = <<kind, line>>, a thrown Error travelling up the call       *)
(***************************************************************************)
EXTENDS Integers, Sequences, FiniteSets, TLC

(***************************************************************************)
(* Characters and the string primitives of the JavaScript runtime.        *)
(***************************************************************************)
WS == {" ", "\t", "\n", "\r"}

Digits == {"0", "1", "2", "3", "4", "5", "6", "7", "8", "9"}

LowerSeq == <<"a", "b", "c", "d", "e", "f", "g", "h", "i", "j", "k", "l", "m",
              "n", "o", "p", "q", "r", "s", "t", "u", "v", "w", "x", "y", "z",
              "ä", "ö", "ü">>

UpperSeq == <<"A", "B", "C", "D", "E", "F", "G", "H", "I", "J", "K", "L", "M",
              "N", "O", "P", "Q", "R", "S", "T", "U", "V", "W", "X", "Y", "Z",
              "Ä", "Ö", "Ü">>

AsciiLower == {LowerSeq[i] : i \in 1..26}

AsciiUpper == {UpperSeq[i] : i \in 1..26}

\* String.prototype.toLowerCase, one character at a time
LowerChar(c) ==
    IF \E i \in 1..Len(UpperSeq) : UpperSeq[i] = c
    THEN LowerSeq[CHOOSE i \in 1..Len(UpperSeq) : UpperSeq[i] = c]
    ELSE c

toLowerCase(s) == [i \in 1..Len(s) |-> LowerChar(s[i])]

\* the number of leading whitespace characters: rawLine.match(/^(\s*)/u)[0].length
LeadWS(s) ==
    IF \A i \in 1..Len(s) : s[i] \in WS
    THEN Len(s)
    ELSE (CHOOSE i \in 1..Len(s) : s[i] \notin WS /\ \A j \in 1..(i - 1) : s[j] \in WS) - 1

\* the number of trailing whitespace characters
TrailWS(s) ==
    IF \A i \in 1..Len(s) : s[i] \in WS
    THEN Len(s)
    ELSE Len(s) - (CHOOSE i \in 1..Len(s) : s[i] \notin WS /\ \A j \in (i + 1)..Len(s) : s[j] \in WS)

trimStart(s) == SubSeq(s, LeadWS(s) + 1, Len(s))

trimEnd(s) == SubSeq(s, 1, Len(s) - TrailWS(s))

trim(s) == trimEnd(trimStart(s))

startsWith(s, p) == Len(s) >= Len(p) /\ SubSeq(s, 1, Len(p)) = p

endsWith(s, p) == Len(s) >= Len(p) /\ SubSeq(s, Len(s) - Len(p) + 1, Len(s)) = p

\* s.indexOf(c), 1-based; 0 when c does not occur (-1 in the source)
indexOf(s, c) ==
    IF \E i \in 1..Len(s) : s[i] = c
    THEN CHOOSE i \in 1..Len(s) : s[i] = c /\ \A j \in 1..(i - 1) : s[j] # c
    ELSE 0

\* s.includes(p) for a pattern p
includes(s, p) == \E i \in 1..(Len(s) - Len(p) + 1) : SubSeq(s, i, i + Len(p) - 1) = p

\* s.slice(from) with a 0-based from, as the source writes it
sliceFrom(s, from) == SubSeq(s, from + 1, Len(s))

\* s.slice(1, -1)
sliceInner(s) == SubSeq(s, 2, Len(s) - 1)

\* s.replace(/p/g, r) for a literal pattern p: leftmost matches, never overlapping
RECURSIVE replaceAll(_, _, _)
replaceAll(s, p, r) ==
    IF Len(s) < Len(p) THEN s
    ELSE IF SubSeq(s, 1, Len(p)) = p
         THEN r \o replaceAll(SubSeq(s, Len(p) + 1, Len(s)), p, r)
         ELSE <<s[1]>> \o replaceAll(Tail(s), p, r)

\* " ".repeat(n)
RECURSIVE repeatSpace(_)
repeatSpace(n) == IF n <= 0 THEN <<>> ELSE <<" ">> \o repeatSpace(n - 1)

\* parts.join(sep)
RECURSIVE join(_, _)
join(parts, sep) ==
    IF parts = <<>> THEN <<>>
    ELSE IF Len(parts) = 1 THEN parts[1]
    ELSE parts[1] \o sep \o join(Tail(parts), sep)

\* concatenation of a sequence of sequences
RECURSIVE flatten(_)
flatten(parts) == IF parts = <<>> THEN <<>> ELSE parts[1] \o flatten(Tail(parts))

\* text.split("\n"): always at least one part
RECURSIVE splitOn(_, _)
splitOn(s, c) ==
    LET i == indexOf(s, c) IN
    IF i = 0 THEN <<s>>
    ELSE <<SubSeq(s, 1, i - 1)>> \o splitOn(SubSeq(s, i + 1, Len(s)), c)

\* the number of consecutive backslashes that end s
RECURSIVE backslashesBefore(_)
backslashesBefore(s) ==
    IF s = <<>> \/ s[Len(s)] # "\\" THEN 0
    ELSE 1 + backslashesBefore(SubSeq(s, 1, Len(s) - 1))

(***************************************************************************)
(* Values.                                                                 *)
(***************************************************************************)
Null == [t |-> "null", v |-> <<>>]

Bool(b) == [t |-> "bool", v |-> IF b THEN <<"T">> ELSE <<"F">>]

Num(digits) == [t |-> "num", v |-> digits]

Str(chars) == [t |-> "str", v |-> chars]

SeqV(items) == [t |-> "seq", v |-> items]

MapV(entries) == [t |-> "map", v |-> entries]

\* a thrown Error: its kind and the line number its message names (0: none)
ErrV(kind, line) == [t |-> "error", v |-> <<kind, line>>]

isError(x) == x.t = "error"

\* typeof value === "object" && value !== null
isObject(x) == x.t \in {"seq", "map"}

\* Array.isArray(value)
isArray(x) == x.t = "seq"

isRecord(x) == x.t = "map"

hasKey(m, k) == \E i \in 1..Len(m.v) : m.v[i][1] = k

keyPos(m, k) == CHOOSE i \in 1..Len(m.v) : m.v[i][1] = k

\* m[k]; Null stands for undefined when the key is absent
getKey(m, k) == IF hasKey(m, k) THEN m.v[keyPos(m, k)][2] ELSE Null

\* A canonical array index ("0", "7", "12"): JavaScript lists such keys of an
\* object first, in ascending numeric order, before every other key.
isIndexKey(k) ==
    /\ k # <<>>
    /\ \A i \in 1..Len(k) : k[i] \in Digits
    /\ (k[1] # "0" \/ Len(k) = 1)
    /\ Len(k) <= 9

digitValue(c) ==
    CASE c = "0" -> 0 [] c = "1" -> 1 [] c = "2" -> 2 [] c = "3" -> 3 [] c = "4" -> 4
      [] c = "5" -> 5 [] c = "6" -> 6 [] c = "7" -> 7 [] c = "8" -> 8 [] c = "9" -> 9

RECURSIVE indexValue(_)
indexValue(k) ==
    IF k = <<>> THEN 0
    ELSE 10 * indexValue(SubSeq(k, 1, Len(k) - 1)) + digitValue(k[Len(k)])

\* where a new key k goes among the entries: after the index keys below it
\* when it is an index key, last otherwise
insertPos(entries, k) ==
    IF isIndexKey(k)
    THEN 1 + Cardinality({i \in 1..Len(entries) :
                             isIndexKey(entries[i][1])
                             /\ indexValue(entries[i][1]) < indexValue(k)})
    ELSE Len(entries) + 1

\* obj[k] = x on the entries of an object: an existing key keeps its place
putEntry(entries, k, x) ==
    IF \E i \in 1..Len(entries) : entries[i][1] = k
    THEN [entries EXCEPT ![CHOOSE i \in 1..Len(entries) : entries[i][1] = k] = <<k, x>>]
    ELSE LET at == insertPos(entries, k) IN
         SubSeq(entries, 1, at - 1) \o <<(<<k, x>>)>> \o SubSeq(entries, at, Len(entries))

putKey(m, k, x) == MapV(putEntry(m.v, k, x))

\* structural equality: mappings are compared by key, whatever the order
RECURSIVE deepEqual(_, _)
deepEqual(a, b) ==
    IF a.t # b.t THEN FALSE
    ELSE IF a.t = "seq"
         THEN Len(a.v) = Len(b.v) /\ \A i \in 1..Len(a.v) : deepEqual(a.v[i], b.v[i])
    ELSE IF a.t = "map"
         THEN /\ Len(a.v) = Len(b.v)
              /\ \A i \in 1..Len(a.v) :
                    hasKey(b, a.v[i][1]) /\ deepEqual(a.v[i][2], getKey(b, a.v[i][1]))
    ELSE a.v = b.v

(***************************************************************************)
(* Scalar grammar and flow collections.                                    *)
(***************************************************************************)
RECURSIVE stripScan(_, _, _, _)
stripScan(line, i, inSingle, inDouble) ==
    IF i > Len(line) THEN line
    ELSE IF line[i] = "'" /\ ~inDouble
         THEN stripScan(line, i + 1, ~inSingle, inDouble)
    ELSE IF line[i] = "\"" /\ ~inSingle
         THEN IF backslashesBefore(SubSeq(line, 1, i - 1)) % 2 = 0
              THEN stripScan(line, i + 1, inSingle, ~inDouble)
              ELSE stripScan(line, i + 1, inSingle, inDouble)
    ELSE IF line[i] = "#" /\ ~inSingle /\ ~inDouble
         THEN SubSeq(line, 1, i - 1)
    ELSE stripScan(line, i + 1, inSingle, inDouble)

stripComments(line) == stripScan(line, 1, FALSE, FALSE)

isWhitespaceOnly(value) == \A i \in 1..Len(value) : value[i] \in WS

parseQuotedString(raw) ==
    IF startsWith(raw, <<"\"">>) /\ endsWith(raw, <<"\"">>)
    THEN replaceAll(replaceAll(replaceAll(sliceInner(raw),
                                          <<"\\", "n">>, <<"\n">>),
                               <<"\\", "\"">>, <<"\"">>),
                    <<"\\", "\\">>, <<"\\">>)
    ELSE IF startsWith(raw, <<"'">>) /\ endsWith(raw, <<"'">>)
         THEN replaceAll(sliceInner(raw), <<"'", "'">>, <<"'">>)
    ELSE raw

hasSign(s) == s # <<>> /\ s[1] \in {"-", "+"}

unsigned(s) == IF hasSign(s) THEN Tail(s) ELSE s

allDigits(s) == \A i \in 1..Len(s) : s[i] \in Digits

\* /^[-+]?[0-9]+$/
isIntegerText(s) == unsigned(s) # <<>> /\ allDigits(unsigned(s))

\* /^[-+]?[0-9]*\.[0-9]+$/
isFloatText(s) ==
    LET u == unsigned(s)
        dot == indexOf(u, ".")
    IN  /\ dot > 0
        /\ allDigits(SubSeq(u, 1, dot - 1))
        /\ dot < Len(u)
        /\ allDigits(SubSeq(u, dot + 1, Len(u)))

RECURSIVE stripLeadingZeros(_)
stripLeadingZeros(d) ==
    IF d # <<>> /\ d[1] = "0" THEN stripLeadingZeros(Tail(d)) ELSE d

RECURSIVE stripTrailingZeros(_)
stripTrailingZeros(d) ==
    IF d # <<>> /\ d[Len(d)] = "0" THEN stripTrailingZeros(SubSeq(d, 1, Len(d) - 1)) ELSE d

\* The number a decimal literal denotes, held as the text String(number) prints
\* for it (no sign on zero, no leading or trailing zeros).  Exact for literals
\* of at most 15 significant digits in the range String() prints positionally.
numberOf(intDigits, fracDigits, negative) ==
    LET ip == stripLeadingZeros(intDigits)
        fp == stripTrailingZeros(fracDigits)
        zero == ip = <<>> /\ fp = <<>>
    IN  Num((IF negative /\ ~zero THEN <<"-">> ELSE <<>>)
            \o (IF ip = <<>> THEN <<"0">> ELSE ip)
            \o (IF fp = <<>> THEN <<>> ELSE <<".">> \o fp))

\* Number.parseInt(trimmed, 10) on a string the integer pattern accepts
parseInt(s) == numberOf(unsigned(s), <<>>, s[1] = "-")

\* Number.parseFloat(trimmed) on a string the float pattern accepts
parseFloat(s) ==
    LET u == unsigned(s)
        dot == indexOf(u, ".")
    IN  numberOf(SubSeq(u, 1, dot - 1), SubSeq(u, dot + 1, Len(u)), s[1] = "-")

RECURSIVE splitScan(_, _, _, _, _, _, _, _)
splitScan(text, separator, i, depth, start, inSingle, inDouble, result) ==
    IF i > Len(text)
    THEN LET finalPart == trim(SubSeq(text, start, Len(text))) IN
         IF finalPart # <<>> THEN Append(result, finalPart) ELSE result
    ELSE IF text[i] = "'" /\ ~inDouble
         THEN splitScan(text, separator, i + 1, depth, start, ~inSingle, inDouble, result)
    ELSE IF text[i] = "\"" /\ ~inSingle
         THEN IF backslashesBefore(SubSeq(text, 1, i - 1)) % 2 = 0
              THEN splitScan(text, separator, i + 1, depth, start, inSingle, ~inDouble, result)
              ELSE splitScan(text, separator, i + 1, depth, start, inSingle, inDouble, result)
    ELSE IF inSingle \/ inDouble
         THEN splitScan(text, separator, i + 1, depth, start, inSingle, inDouble, result)
    ELSE IF text[i] \in {"{", "["}
         THEN splitScan(text, separator, i + 1, depth + 1, start, inSingle, inDouble, result)
    ELSE IF text[i] \in {"}", "]"}
         THEN splitScan(text, separator, i + 1, IF depth > 0 THEN depth - 1 ELSE 0,
                        start, inSingle, inDouble, result)
    ELSE IF text[i] = separator /\ depth = 0
         THEN splitScan(text, separator, i + 1, depth, i + 1, inSingle, inDouble,
                        Append(result, trim(SubSeq(text, start, i - 1))))
    ELSE splitScan(text, separator, i + 1, depth, start, inSingle, inDouble, result)

splitTopLevel(text, separator) == splitScan(text, separator, 1, 0, 1, FALSE, FALSE, <<>>)

RECURSIVE parseScalar(_)
RECURSIVE parseInlineArray(_)
RECURSIVE parseInlineObject(_)
RECURSIVE inlineItems(_, _)
RECURSIVE inlineEntries(_, _)

parseScalar(rawValue) ==
    LET trimmed == trim(rawValue) IN
    IF trimmed = <<>> \/ trimmed = <<"n", "u", "l", "l">> \/ trimmed = <<"~">>
    THEN Null
    ELSE IF trimmed = <<"t", "r", "u", "e">> \/ trimmed = <<"T", "r", "u", "e">>
         THEN Bool(TRUE)
    ELSE IF trimmed = <<"f", "a", "l", "s", "e">> \/ trimmed = <<"F", "a", "l", "s", "e">>
         THEN Bool(FALSE)
    ELSE IF isIntegerText(trimmed) THEN parseInt(trimmed)
    ELSE IF isFloatText(trimmed) THEN parseFloat(trimmed)
    ELSE IF \/ startsWith(trimmed, <<"\"">>) /\ endsWith(trimmed, <<"\"">>)
            \/ startsWith(trimmed, <<"'">>) /\ endsWith(trimmed, <<"'">>)
         THEN Str(parseQuotedString(trimmed))
    ELSE IF startsWith(trimmed, <<"[">>) /\ endsWith(trimmed, <<"]">>)
         THEN parseInlineArray(sliceInner(trimmed))
    ELSE IF startsWith(trimmed, <<"{">>) /\ endsWith(trimmed, <<"}">>)
         THEN parseInlineObject(sliceInner(trimmed))
    ELSE Str(trimmed)

\* parts.map((part) => parseScalar(part)); a throw inside ends the call
inlineItems(parts, acc) ==
    IF parts = <<>> THEN SeqV(acc)
    ELSE LET item == parseScalar(parts[1]) IN
         IF isError(item) THEN item ELSE inlineItems(Tail(parts), Append(acc, item))

parseInlineArray(body) ==
    IF isWhitespaceOnly(body) THEN SeqV(<<>>)
    ELSE inlineItems(splitTopLevel(body, ","), <<>>)

\* the for-of loop of parseInlineObject over the fragments
inlineEntries(parts, obj) ==
    IF parts = <<>> THEN obj
    ELSE LET part == parts[1]
             colonIdx == indexOf(part, ":")
         IN  IF colonIdx = 0 THEN ErrV("inline-fragment", 0)
             ELSE LET key == trim(SubSeq(part, 1, colonIdx - 1))
                      val == parseScalar(trim(sliceFrom(part, colonIdx)))
                  IN  IF isError(val) THEN val
                      ELSE inlineEntries(Tail(parts), putKey(obj, key, val))

parseInlineObject(body) ==
    IF isWhitespaceOnly(body) THEN MapV(<<>>)
    ELSE inlineEntries(splitTopLevel(body, ","), MapV(<<>>))

(***************************************************************************)
(* The heap: containers are objects with identity.  heap[id] is a node     *)
(* [t, v, p]: t is "map" or "seq", v the entries or the elements (scalars  *)
(* or references), p the named (non-index) properties set on an array.     *)
(***************************************************************************)
Ref(id) == [t |-> "ref", v |-> <<id>>]

isRef(x) == x.t = "ref"

idOf(x) == x.v[1]

Node(t, v, p) == [t |-> t, v |-> v, p |-> p]

EmptyObject == Node("map", <<>>, <<>>)

EmptyArray == Node("seq", <<>>, <<>>)

\* the number of containers a value tree is made of
RECURSIVE containers(_)
RECURSIVE containersIn(_)
containers(x) ==
    IF x.t = "seq" THEN 1 + containersIn(x.v)
    ELSE IF x.t = "map" THEN 1 + containersIn([i \in 1..Len(x.v) |-> x.v[i][2]])
    ELSE 0

containersIn(items) ==
    IF items = <<>> THEN 0 ELSE containers(items[1]) + containersIn(Tail(items))

\* new containers for the value tree x, numbered from base + 1 on, the children
\* of a container before the container itself: [nodes, val]
RECURSIVE build(_, _)
build(x, base) ==
    IF x.t \notin {"seq", "map"} THEN [nodes |-> <<>>, val |-> x]
    ELSE LET kids == IF x.t = "seq" THEN x.v ELSE [i \in 1..Len(x.v) |-> x.v[i][2]]
             built == [i \in 1..Len(kids) |->
                          build(kids[i], base + containersIn(SubSeq(kids, 1, i - 1)))]
             nodes == flatten([i \in 1..Len(kids) |-> built[i].nodes])
             vals == IF x.t = "seq"
                     THEN [i \in 1..Len(kids) |-> built[i].val]
                     ELSE [i \in 1..Len(kids) |-> <<x.v[i][1], built[i].val>>]
         IN  [nodes |-> Append(nodes, Node(x.t, vals, <<>>)),
              val |-> Ref(base + Len(nodes) + 1)]

\* the value tree x built out of new containers on the heap h: [h, val]
alloc(h, x) ==
    LET b == build(x, Len(h)) IN [h |-> h \o b.nodes, val |-> b.val]

\* the value tree a heap value denotes: what every reader of the program sees
\* (elements and entries; an array's named properties are not elements)
RECURSIVE reify(_, _)
reify(h, x) ==
    IF x.t # "ref" THEN x
    ELSE LET n == h[idOf(x)] IN
         IF n.t = "seq"
         THEN SeqV([i \in 1..Len(n.v) |-> reify(h, n.v[i])])
         ELSE MapV([i \in 1..Len(n.v) |-> <<n.v[i][1], reify(h, n.v[i][2])>>])

\* the ids of the containers reachable from x
RECURSIVE reach(_, _)
reach(h, x) ==
    IF x.t # "ref" THEN {}
    ELSE LET n == h[idOf(x)] IN
         {idOf(x)}
         \cup UNION {reach(h, IF n.t = "seq" THEN n.v[i] ELSE n.v[i][2]) : i \in 1..Len(n.v)}
         \cup UNION {reach(h, n.p[i][2]) : i \in 1..Len(n.p)}

\* container[key] = x.  On an array an index key writes an element (a write
\* past the end fills the gap with empty slots, held here as null), any other
\* key sets a named property.
setProp(h, id, key, x) ==
    LET n == h[id] IN
    IF n.t = "map" THEN [h EXCEPT ![id].v = putEntry(n.v, key, x)]
    ELSE IF isIndexKey(key)
         THEN LET at == indexValue(key) + 1 IN
              [h EXCEPT ![id].v = [i \in 1..(IF at > Len(n.v) THEN at ELSE Len(n.v)) |->
                                      IF i = at THEN x
                                      ELSE IF i <= Len(n.v) THEN n.v[i] ELSE Null]]
    ELSE [h EXCEPT ![id].p = putEntry(n.p, key, x)]

\* container.push(x)
pushItem(h, id, x) == [h EXCEPT ![id].v = Append(h[id].v, x)]

(***************************************************************************)
(* The block parser.  A frame is one entry of parseYAML's stack; `line` is *)
(* the number of the line whose processing pushed it (0: the root).        *)
(***************************************************************************)
\* frame.pending: null, or { key, indent }; `line` is the number of the line
\* that recorded it
NoPending == [set |-> FALSE, key |-> <<>>, indent |-> 0, line |-> 0]

Pending(key, indent, line) == [set |-> TRUE, key |-> key, indent |-> indent, line |-> line]

Frame(type, container, indent, pending, line) ==
    [type |-> type, container |-> container, indent |-> indent,
     pending |-> pending, line |-> line]

NoError == ErrV("none", 0)

\* the state of one parseYAML call: its stack, the containers built, and the
\* Error thrown (NoError while none is)
initParse ==
    [heap |-> <<EmptyObject>>,
     stack |-> <<Frame("object", 1, -1, NoPending, 0)>>,
     err |-> NoError]

\* text.replace(/\r\n?/g, "\n").split("\n"): a line ends at "\r\n", "\r" or "\n"
splitLines(text) ==
    LET pieces == splitOn(text, "\n")
        \* the "\r" that ends a piece followed by "\n" belongs to that line break
        body(i) == IF i < Len(pieces) /\ endsWith(pieces[i], <<"\r">>)
                   THEN SubSeq(pieces[i], 1, Len(pieces[i]) - 1)
                   ELSE pieces[i]
    IN  flatten([i \in 1..Len(pieces) |-> splitOn(body(i), "\r")])

\* the lines parseYAML loops over: comments stripped, tabs widened, right-trimmed
filteredLines(text) ==
    LET lines == splitLines(text) IN
    [i \in 1..Len(lines) |->
        trimEnd(replaceAll(stripComments(lines[i]), <<"\t">>, <<" ", " ">>))]

\* a dedent loop that leaves a frame of the line's own indent on the stack
RECURSIVE popFramesStrict(_, _)
popFramesStrict(stack, indent) ==
    IF Len(stack) > 1 /\ indent < stack[Len(stack)].indent
    THEN popFramesStrict(SubSeq(stack, 1, Len(stack) - 1), indent)
    ELSE stack

\* while (stack.length > 1 && indent <= stack[stack.length - 1].indent) stack.pop()
RECURSIVE popFrames(_, _)
popFrames(stack, indent) ==
    IF Len(stack) > 1 /\ indent <= stack[Len(stack)].indent
    THEN popFrames(SubSeq(stack, 1, Len(stack) - 1), indent)
    ELSE stack

\* frame.container[frame.pending.key] = a new container; push its frame;
\* frame.pending = null
openPending(ps, type, lineNo) ==
    LET top == Len(ps.stack)
        frame == ps.stack[top]
        id == Len(ps.heap) + 1
        h1 == Append(ps.heap, IF type = "array" THEN EmptyArray ELSE EmptyObject)
    IN  [ps EXCEPT
           !.heap = setProp(h1, frame.container, frame.pending.key, Ref(id)),
           !.stack = Append([ps.stack EXCEPT ![top].pending = NoPending],
                            Frame(type, id, frame.pending.indent, NoPending, lineNo))]

\* "Resolve pending keys if necessary"
resolvePending(ps, indent, trimmed, lineNo) ==
    LET top == Len(ps.stack)
        frame == ps.stack[top]
    IN  IF frame.pending.set /\ indent > frame.pending.indent
        THEN openPending(ps, IF startsWith(trimmed, <<"-">>) THEN "array" ELSE "object", lineNo)
        ELSE IF frame.pending.set /\ indent <= frame.pending.indent
             THEN [ps EXCEPT !.stack[top].pending = NoPending]
        ELSE ps

\* the body of `if (trimmed.startsWith("-"))`, once the array frame is on top
listItemInto(ps, indent, trimmed, lineNo) ==
    LET frame == ps.stack[Len(ps.stack)]
        content == trim(sliceFrom(trimmed, 1))
        id == Len(ps.heap) + 1
    IN  IF frame.type # "array"
        THEN [ps EXCEPT !.err = ErrV("no-array-context", lineNo)]
        ELSE IF content = <<>>
        THEN [ps EXCEPT
                !.heap = pushItem(Append(ps.heap, EmptyObject), frame.container, Ref(id)),
                !.stack = Append(ps.stack, Frame("object", id, indent, NoPending, lineNo))]
        ELSE IF includes(content, <<":">>)
        THEN LET colonIndex == indexOf(content, ":")
                 key == trim(SubSeq(content, 1, colonIndex - 1))
                 valuePart == trim(sliceFrom(content, colonIndex))
             IN  IF valuePart = <<>>
                 THEN LET h1 == Append(Append(ps.heap, EmptyObject), EmptyObject)
                          h2 == setProp(h1, id, key, Ref(id + 1))
                      IN  [ps EXCEPT
                             !.heap = pushItem(h2, frame.container, Ref(id)),
                             !.stack = Append(ps.stack,
                                              Frame("object", id, indent,
                                                    Pending(key, indent, lineNo), lineNo))]
                 ELSE LET val == parseScalar(valuePart) IN
                      IF isError(val) THEN [ps EXCEPT !.err = val]
                      ELSE LET r == alloc(Append(ps.heap, EmptyObject), val)
                               h2 == setProp(r.h, id, key, r.val)
                           IN  [ps EXCEPT
                                  !.heap = pushItem(h2, frame.container, Ref(id)),
                                  !.stack = Append(ps.stack,
                                                   Frame("object", id, indent,
                                                         NoPending, lineNo))]
        ELSE LET val == parseScalar(content) IN
             IF isError(val) THEN [ps EXCEPT !.err = val]
             ELSE LET r == alloc(ps.heap, val) IN
                  [ps EXCEPT !.heap = pushItem(r.h, frame.container, r.val)]

\* a line that starts with "-"
listItem(ps, indent, trimmed, lineNo) ==
    LET frame == ps.stack[Len(ps.stack)] IN
    IF frame.type = "object"
    THEN IF ~frame.pending.set
         THEN [ps EXCEPT !.err = ErrV("unexpected-list-item", lineNo)]
         ELSE listItemInto(openPending(ps, "array", lineNo), indent, trimmed, lineNo)
    ELSE listItemInto(ps, indent, trimmed, lineNo)

\* a line that does not start with "-": key: value
mappingEntry(ps, indent, trimmed, lineNo) ==
    LET top == Len(ps.stack)
        frame == ps.stack[top]
        colonIndex == indexOf(trimmed, ":")
        key == trim(SubSeq(trimmed, 1, colonIndex - 1))
        valuePart == trim(sliceFrom(trimmed, colonIndex))
    IN  IF colonIndex = 0
        THEN [ps EXCEPT !.err = ErrV("unparsable-line", lineNo)]
        ELSE IF valuePart = <<>>
        THEN [ps EXCEPT !.stack[top].pending = Pending(key, indent, lineNo)]
        ELSE LET val == parseScalar(valuePart) IN
             IF isError(val) THEN [ps EXCEPT !.err = val]
             ELSE LET r == alloc(ps.heap, val) IN
                  [ps EXCEPT !.heap = setProp(r.h, frame.container, key, r.val)]

\* one turn of the for loop over filteredLines; lineNo is index + 1
parseLine(ps, rawLine, lineNo) ==
    IF isWhitespaceOnly(rawLine) THEN ps
    ELSE LET indent == LeadWS(rawLine)
             trimmed == trim(rawLine)
             popped == [ps EXCEPT !.stack = popFrames(ps.stack, indent)]
             resolved == resolvePending(popped, indent, trimmed, lineNo)
         IN  IF startsWith(trimmed, <<"-">>)
             THEN listItem(resolved, indent, trimmed, lineNo)
             ELSE mappingEntry(resolved, indent, trimmed, lineNo)

\* the closing while loop: pop every frame above the root; a popped frame's
\* pending key is assigned on the container of the frame then on top
RECURSIVE unwind(_)
unwind(ps) ==
    IF Len(ps.stack) <= 1 THEN ps
    ELSE LET top == ps.stack[Len(ps.stack)]
             rest == SubSeq(ps.stack, 1, Len(ps.stack) - 1)
             id == Len(ps.heap) + 1
         IN  IF top.pending.set
             THEN unwind([ps EXCEPT
                            !.stack = rest,
                            !.heap = setProp(Append(ps.heap, EmptyObject),
                                             rest[Len(rest)].container,
                                             top.pending.key, Ref(id))])
             ELSE unwind([ps EXCEPT !.stack = rest])

\* return stack[0].container
parseResult(ps) == reify(ps.heap, Ref(ps.stack[1].container))

RECURSIVE parseLines(_, _, _)
parseLines(ps, lines, i) ==
    IF i > Len(lines) \/ ps.err # NoError THEN ps
    ELSE parseLines(parseLine(ps, lines[i], i), lines, i + 1)

\* parseYAML(text): the tree, or the Error thrown
parseYAML(text) ==
    LET ps == parseLines(initParse, filteredLines(text), 1) IN
    IF ps.err # NoError THEN ps.err ELSE parseResult(unwind(ps))

(***************************************************************************)
(* The serializer.                                                         *)
(***************************************************************************)
BareChars == AsciiLower \cup AsciiUpper \cup Digits \cup {"-", "_", "."}

\* !/^[-A-Za-z0-9_\.]+$/.test(value) || value.includes(": ") || value === ""
needsQuoting(value) ==
    \/ ~(value # <<>> /\ \A i \in 1..Len(value) : value[i] \in BareChars)
    \/ includes(value, <<":", " ">>)
    \/ value = <<>>

quoteString(value) ==
    <<"\"">>
    \o replaceAll(replaceAll(value, <<"\\">>, <<"\\", "\\">>), <<"\"">>, <<"\\", "\"">>)
    \o <<"\"">>

serializeScalar(value) ==
    IF value.t = "null" THEN <<"n", "u", "l", "l">>
    ELSE IF value.t = "bool"
         THEN IF value.v = <<"T">> THEN <<"t", "r", "u", "e">>
                                   ELSE <<"f", "a", "l", "s", "e">>
    ELSE IF value.t = "num" THEN value.v
    ELSE IF needsQuoting(value.v) THEN quoteString(value.v) ELSE value.v

RECURSIVE stringifyYAML(_, _, _)
stringifyYAML(value, indentSize, indentLevel) ==
    LET indent == repeatSpace(indentLevel)
        childIndent == repeatSpace(indentLevel + indentSize)
        relative(line) ==
            IF startsWith(line, childIndent)
            THEN sliceFrom(line, Len(childIndent))
            ELSE trimStart(line)
        itemText(item) ==
            IF isObject(item)
            THEN LET nested == stringifyYAML(item, indentSize, indentLevel + indentSize)
                     parts == splitOn(nested, "\n")
                     firstLine == parts[1]
                     rest == Tail(parts)
                 IN  IF rest = <<>>
                     THEN indent \o <<"-", " ">> \o trimStart(firstLine)
                     ELSE indent \o <<"-", " ">> \o trimStart(firstLine) \o <<"\n">>
                          \o join([i \in 1..Len(rest) |-> childIndent \o relative(rest[i])],
                                  <<"\n">>)
            ELSE indent \o <<"-", " ">> \o serializeScalar(item)
        entryText(entry) ==
            LET key == entry[1]
                val == entry[2]
                prefix == indent \o (IF needsQuoting(key) THEN quoteString(key) ELSE key)
                          \o <<":">>
            IN  IF isObject(val)
                THEN prefix \o <<"\n">>
                     \o stringifyYAML(val, indentSize, indentLevel + indentSize)
                ELSE prefix \o <<" ">> \o serializeScalar(val)
    IN  IF isArray(value)
        THEN IF Len(value.v) = 0 THEN indent \o <<"[", "]">>
             ELSE join([i \in 1..Len(value.v) |-> itemText(value.v[i])], <<"\n">>)
        ELSE IF isObject(value)
        THEN IF Len(value.v) = 0 THEN indent \o <<"{", "}">>
             ELSE join([i \in 1..Len(value.v) |-> entryText(value.v[i])], <<"\n">>)
        ELSE indent \o serializeScalar(value)

(***************************************************************************)
(* The pattern matcher.  Its functions only read the tree: they are given  *)
(* the value tree the working document denotes.                            *)
(***************************************************************************)
\* "type"
S_type == <<"t", "y", "p", "e">>

\* "cards"
S_cards == <<"c", "a", "r", "d", "s">>

\* "grid"
S_grid == <<"g", "r", "i", "d">>

\* "vertical-stack"
S_vertical_stack == <<"v", "e", "r", "t", "i", "c", "a", "l", "-", "s", "t", "a", "c", "k">>

\* "custom:bubble-card"
S_bubble_card == <<"c", "u", "s", "t", "o", "m", ":", "b", "u", "b", "b", "l", "e", "-", "c", "a", "r", "d">>

\* "card_type"
S_card_type == <<"c", "a", "r", "d", "_", "t", "y", "p", "e">>

\* "pop-up"
S_pop_up == <<"p", "o", "p", "-", "u", "p">>

\* "name"
S_name == <<"n", "a", "m", "e">>

\* "hash"
S_hash == <<"h", "a", "s", "h">>

\* "area"
S_area == <<"a", "r", "e", "a">>

\* "target"
S_target == <<"t", "a", "r", "g", "e", "t">>

\* "area_id"
S_area_id == <<"a", "r", "e", "a", "_", "i", "d">>

\* "__AREA_NAME__"
P_AREA_NAME == <<"_", "_", "A", "R", "E", "A", "_", "N", "A", "M", "E", "_", "_">>

\* "__AREA_ID__"
P_AREA_ID == <<"_", "_", "A", "R", "E", "A", "_", "I", "D", "_", "_">>

\* "__HASH__"
P_HASH == <<"_", "_", "H", "A", "S", "H", "_", "_">>

\* "__ICON__"
P_ICON == <<"_", "_", "I", "C", "O", "N", "_", "_">>

\* "-popup"
S_popup_suffix == <<"-", "p", "o", "p", "u", "p">>

\* the translit table of slugifyArea
translit(char) ==
    CASE char = "ä" -> <<"a", "e">>
      [] char = "ö" -> <<"o", "e">>
      [] char = "ü" -> <<"u", "e">>
      [] char = "ß" -> <<"s", "s">>
      [] OTHER -> <<>>

RECURSIVE slugChars(_)
slugChars(lower) ==
    IF lower = <<>> THEN <<>>
    ELSE (IF translit(lower[1]) # <<>> THEN translit(lower[1])
          ELSE IF lower[1] \in AsciiLower \cup Digits THEN <<lower[1]>>
          ELSE IF lower[1] \in {" ", "/"} THEN <<"_">>
          ELSE <<>>)
         \o slugChars(Tail(lower))

slugifyArea(name) == slugChars(toLowerCase(trim(name)))

normaliseRoom(value) == toLowerCase(trim(value))

\* JavaScript truthiness of a value
truthy(x) ==
    CASE x.t = "null" -> FALSE
      [] x.t = "bool" -> x.v = <<"T">>
      [] x.t = "num" -> x.v # <<"0">>
      [] x.t = "str" -> x.v # <<>>
      [] OTHER -> TRUE

isBubblePopup(stack) ==
    IF ~isRecord(stack) THEN FALSE
    ELSE IF getKey(stack, S_type) # Str(S_vertical_stack) THEN FALSE
    ELSE LET cards == getKey(stack, S_cards) IN
         IF ~isArray(cards) \/ Len(cards.v) = 0 THEN FALSE
         ELSE LET first == cards.v[1] IN
              IF ~isRecord(first) THEN FALSE
              ELSE /\ getKey(first, S_type) = Str(S_bubble_card)
                   /\ getKey(first, S_card_type) = Str(S_pop_up)

RECURSIVE extractAreaFromNode(_)
RECURSIVE extractFirst(_)
extractAreaFromNode(node) ==
    IF isRecord(node)
    THEN IF getKey(node, S_area).t = "str" THEN getKey(node, S_area)
         ELSE IF /\ isRecord(getKey(node, S_target))
                 /\ getKey(getKey(node, S_target), S_area_id).t = "str"
              THEN getKey(getKey(node, S_target), S_area_id)
         ELSE extractFirst([i \in 1..Len(node.v) |-> node.v[i][2]])
    ELSE IF isArray(node) THEN extractFirst(node.v)
    ELSE Null

\* the for-of loops of extractAreaFromNode: the first truthy extraction
extractFirst(items) ==
    IF items = <<>> THEN Null
    ELSE LET extracted == extractAreaFromNode(items[1]) IN
         IF truthy(extracted) THEN extracted ELSE extractFirst(Tail(items))

\* `#${areaId}-popup`
hashFor(areaId) == <<"#">> \o areaId \o S_popup_suffix

KnownStrategies == {"name", "hash", "area"}

\* the strategy's test of one pop-up stack (strategy is "name", "hash" or "area")
strategyMatch(strategy, stack, room, areaId) ==
    LET head == getKey(stack, S_cards).v[1] IN
    IF strategy = "name"
    THEN LET name == IF getKey(head, S_name).t = "str"
                     THEN normaliseRoom(getKey(head, S_name).v)
                     ELSE <<>>
         IN  name = normaliseRoom(room)
    ELSE IF strategy = "hash"
    THEN getKey(head, S_hash) = Str(hashFor(areaId))
    ELSE extractAreaFromNode(stack) = Str(areaId)

\* no index: null in the source; indices are 0-based as in the source
NoIndex == -1

MatchResult(index, duplicates) == [t |-> "match", index |-> index, duplicates |-> duplicates]

\* the bookkeeping C2 rules out: a later match takes the place of the first
recordMatchLast(result, index) ==
    IF result.index = NoIndex
    THEN MatchResult(index, result.duplicates)
    ELSE MatchResult(index, Append(result.duplicates, result.index))

\* if (match) { if (foundIndex === null) foundIndex = index; else duplicates.push(index) }
recordMatch(result, index) ==
    IF result.index = NoIndex
    THEN MatchResult(index, result.duplicates)
    ELSE MatchResult(result.index, Append(result.duplicates, index))

\* cards.forEach((stack, index) => ...) from position i on
RECURSIVE scanCards(_, _, _, _, _, _)
scanCards(cards, i, room, areaId, strategy, result) ==
    IF i > Len(cards) THEN result
    ELSE IF ~isBubblePopup(cards[i])
         THEN scanCards(cards, i + 1, room, areaId, strategy, result)
    ELSE IF strategy \notin KnownStrategies
         THEN ErrV("unknown-strategy", 0)
    ELSE IF strategyMatch(strategy, cards[i], room, areaId)
         THEN scanCards(cards, i + 1, room, areaId, strategy, recordMatch(result, i - 1))
    ELSE scanCards(cards, i + 1, room, areaId, strategy, result)

\* findExistingStack(grid, room, areaId, strategy): a MatchResult or the Error thrown
findExistingStack(grid, room, areaId, strategy) ==
    LET cards == getKey(grid, S_cards) IN
    IF ~isArray(cards) THEN ErrV("cards-invalid", 0)
    ELSE scanCards(cards.v, 1, room, areaId, strategy, MatchResult(NoIndex, <<>>))

(***************************************************************************)
(* The template engine.  Its functions change containers in place, so they *)
(* work on the heap.                                                       *)
(***************************************************************************)
\* a clone that is no clone: the value itself, sharing every container
deepCloneShared(h, value) == [h |-> h, val |-> value]

\* structuredClone(value), or JSON.parse(JSON.stringify(value)) where that is
\* missing: a copy of the tree out of new containers.  The result is [h, val].
deepClone(h, value) == alloc(h, reify(h, value))

\* the key traverse hands its visitor: null, a property name, or an array index
NoKey == Null

IndexKey(i) == [t |-> "idx", v |-> <<i>>]

\* parent[key] = x, for a key that traverse produced
setChild(h, parent, key, x) ==
    LET id == idOf(parent) IN
    IF h[id].t = "seq"
    THEN [h EXCEPT ![id].v[key.v[1] + 1] = x]
    ELSE [h EXCEPT ![id].v = putEntry(h[id].v, key.v, x)]

\* the visitor of replacePlaceholders; acc is [h, replaced, iconApplied]
visitPlaceholder(acc, value, parent, key, pass) ==
    IF value.t # "str" THEN acc
    ELSE LET replacement == getKey(pass.replacements, value.v) IN
         IF truthy(replacement)
         THEN IF parent # Null /\ key # NoKey
              THEN [acc EXCEPT !.h = setChild(acc.h, parent, key, replacement),
                               !.replaced = TRUE]
              ELSE acc
         ELSE IF value.v = P_ICON /\ truthy(pass.iconValue) /\ parent # Null /\ key # NoKey
              THEN [acc EXCEPT !.h = setChild(acc.h, parent, key, pass.iconValue),
                               !.iconApplied = TRUE]
         ELSE acc

\* the visitor of applyHeuristics
visitHeuristic(acc, value, parent, key, pass) ==
    IF parent = Null \/ key = NoKey THEN acc
    ELSE IF acc.h[idOf(parent)].t # "map" THEN acc
    ELSE LET a1 == IF key = Str(S_area)
                   THEN [acc EXCEPT !.h = setChild(acc.h, parent, key, Str(pass.areaId))]
                   ELSE acc
         IN  IF key = Str(S_target) /\ isRef(value) /\ a1.h[idOf(value)].t = "map"
             THEN [a1 EXCEPT !.h = setProp(a1.h, idOf(value), S_area_id, Str(pass.areaId))]
             ELSE a1

visit(acc, value, parent, key, pass) ==
    IF pass.kind = "placeholders"
    THEN visitPlaceholder(acc, value, parent, key, pass)
    ELSE visitHeuristic(acc, value, parent, key, pass)

\* traverse(node, visitor, parent, key): the visitor first, then the children:
\* an array's elements as they are when reached, a record's entries as they
\* are once the visitor has run on the record
RECURSIVE traverse(_, _, _, _, _)
RECURSIVE traverseItems(_, _, _, _, _)
RECURSIVE traverseEntries(_, _, _, _)
traverse(acc, node, parent, key, pass) ==
    LET a1 == visit(acc, node, parent, key, pass) IN
    IF ~isRef(node) THEN a1
    ELSE IF a1.h[idOf(node)].t = "seq"
         THEN traverseItems(a1, node, 1, Len(a1.h[idOf(node)].v), pass)
         ELSE traverseEntries(a1, node, a1.h[idOf(node)].v, pass)

traverseItems(acc, node, i, n, pass) ==
    IF i > n THEN acc
    ELSE traverseItems(traverse(acc, acc.h[idOf(node)].v[i], node, IndexKey(i - 1), pass),
                       node, i + 1, n, pass)

traverseEntries(acc, node, entries, pass) ==
    IF entries = <<>> THEN acc
    ELSE traverseEntries(traverse(acc, entries[1][2], node, Str(entries[1][1]), pass),
                         node, Tail(entries), pass)

\* replacePlaceholders(node, replacements, iconValue): [h, replaced, iconApplied]
replacePlaceholders(h, node, replacements, iconValue) ==
    traverse([h |-> h, replaced |-> FALSE, iconApplied |-> FALSE], node, Null, NoKey,
             [kind |-> "placeholders", replacements |-> replacements,
              iconValue |-> iconValue])

\* heuristics that leave the first card's name and hash as the template has them
bindNothing(h, stack, room, areaId) == h

\* the closing part of applyHeuristics: the first card's name and hash
bindFirstCard(h, stack, room, areaId) ==
    LET root == h[idOf(stack)]
        cards == getKey(root, S_cards)
    IN  IF ~(isRef(cards) /\ h[idOf(cards)].t = "seq" /\ Len(h[idOf(cards)].v) > 0) THEN h
        ELSE LET first == h[idOf(cards)].v[1] IN
             IF ~(isRef(first) /\ h[idOf(first)].t = "map") THEN h
             ELSE LET h1 == IF hasKey(h[idOf(first)], S_name)
                            THEN setProp(h, idOf(first), S_name, Str(room))
                            ELSE h
                  IN  IF hasKey(h1[idOf(first)], S_hash)
                      THEN setProp(h1, idOf(first), S_hash, Str(hashFor(areaId)))
                      ELSE h1

\* applyHeuristics(stack, room, areaId): the heap after it
applyHeuristics(h, stack, room, areaId) ==
    bindFirstCard(traverse([h |-> h, replaced |-> FALSE, iconApplied |-> FALSE],
                           stack, Null, NoKey,
                           [kind |-> "heuristics", areaId |-> areaId]).h,
                  stack, room, areaId)

\* (a lookup in the table also finds what a plain object inherits, such as
\* `constructor`; no template here holds such a string)
\* the replacements table of deepApplyTemplate
replacementsFor(room, areaId) ==
    MapV(<< <<P_AREA_NAME, Str(room)>>,
            <<P_AREA_ID, Str(areaId)>>,
            <<P_HASH, Str(hashFor(areaId))>> >>)

\* iconMap ? iconMap[room] ?? null : null
iconValueFor(iconMap, room) ==
    IF truthy(iconMap) THEN getKey(iconMap, room) ELSE Null

\* the array grid.cards of a grid held on the heap
cardsOf(h, grid) == getKey(h[idOf(grid)], S_cards)

\* a splice that never overwrites: the stack is always appended
replaceOrAppendPush(h, grid, index, stack, insertMode) ==
    [h |-> pushItem(h, idOf(cardsOf(h, grid)), stack),
     index |-> Len(h[idOf(cardsOf(h, grid))].v)]

\* replaceOrAppend(grid, index, stack, insertMode): [h, index]
replaceOrAppend(h, grid, index, stack, insertMode) ==
    LET cards == idOf(cardsOf(h, grid)) IN
    IF index # NoIndex /\ insertMode = "keep-index"
    THEN [h |-> [h EXCEPT ![cards].v[index + 1] = stack], index |-> index]
    ELSE IF index # NoIndex
    THEN [h |-> [h EXCEPT ![cards].v[index + 1] = stack], index |-> index]
    ELSE [h |-> pushItem(h, cards, stack), index |-> Len(h[cards].v)]

(***************************************************************************)
(* The state.  A behaviour is one call: of parseYAML (followed by          *)
(* stringifyYAML of the tree it returned and parseYAML of that text), or   *)
(* of processGrid.  The variables of the other call keep their idle        *)
(* values.                                                                 *)
(***************************************************************************)
VARIABLES
    pc,        \* where the call is
    text,      \* the text handed to parseYAML
    lines,     \* filteredLines
    index,     \* the for loop's index (0-based: lines 1..index are done)
    stack,     \* the parser's stack of frames
    pheap,     \* the containers the parser has built
    perr,      \* the Error parseYAML threw, NoError while none
    recorded,  \* every <<container, key, line>> ever recorded as a pending key
    tree,      \* what parseYAML returned
    yaml,      \* stringifyYAML(tree)
    back       \* parseYAML(yaml)

VARIABLES
    gridSource,     \* processGrid's arguments: the grid document,
    templateSource, \* the template document,
    roomsJson,      \* what JSON.parse makes of roomsSource (a value or the error it throws)
    options,        \* and [indent, detectBy, insertMode, iconMap]
    heap,           \* the containers processGrid has built
    grid,           \* the parsed grid
    template,       \* the parsed template
    original,       \* the trees parseYAML returned for them
    gridCopy,       \* the working tree
    templateCopy,   \* the template handed to deepApplyTemplate
    rooms,          \* the list of rooms
    roomIndex,      \* the number of rooms rooms.forEach has completed
    areaId,         \* the current room's slug
    match,          \* what findExistingStack returned for it
    applied,        \* deepApplyTemplate's [stack, replacedPlaceholders, iconApplied]
    issued,         \* the containers of every stack spliced so far
    report,         \* the report
    output,         \* what processGrid returned
    gerr            \* the Error processGrid threw, "none" while none

parseVars == <<text, lines, index, stack, pheap, perr, recorded, tree, yaml, back>>

gridVars == <<gridSource, templateSource, roomsJson, options, heap, grid, template,
              original, gridCopy, templateCopy, rooms, roomIndex, areaId, match,
              applied, issued, report, output, gerr>>

vars == <<pc, parseVars, gridVars>>

\* deepApplyTemplate has not run for the current room
NotApplied == [stack |-> Null, replacedPlaceholders |-> FALSE, iconApplied |-> FALSE]

\* processGrid's locals before their first assignment
FreshGrid ==
    /\ heap = <<>>
    /\ grid = Null
    /\ template = Null
    /\ original = [grid |-> Null, template |-> Null]
    /\ gridCopy = Null
    /\ templateCopy = Null
    /\ rooms = <<>>
    /\ roomIndex = 0
    /\ areaId = <<>>
    /\ match = MatchResult(NoIndex, <<>>)
    /\ applied = NotApplied
    /\ issued = {}
    /\ report = <<>>
    /\ output = Null
    /\ gerr = "none"

\* no call of processGrid
IdleGrid ==
    /\ gridSource = <<>>
    /\ templateSource = <<>>
    /\ roomsJson = Null
    /\ options = Null
    /\ FreshGrid

\* no call of parseYAML
IdleParse ==
    /\ text = <<>>
    /\ lines = <<>>
    /\ index = 0
    /\ stack = <<>>
    /\ pheap = <<>>
    /\ perr = NoError
    /\ recorded = {}
    /\ tree = Null
    /\ yaml = <<>>
    /\ back = Null

(***************************************************************************)
(* parseYAML as a state machine, one step per line of the input, followed  *)
(* by stringifyYAML of the tree it returned and parseYAML of that text.    *)
(***************************************************************************)

\* the lines an input text is made of
MaxLines == 3

\* the input lines, by indentation:
\*   `a:`        
\*   `b: x`      
\*   `c: {}`     
\*   `d: "true"` 
\*   `"e f": 1`  
\*   `- : x`     
\*   `  a:`      
\*   `  b: x`    
\*   `  - : x`   
\*   `  - x`     
\*   `  - a:`    
\*   `  -`       
\*   `  g: []`   
\*   `    b: x`  
\*   `    a:`    
\*   `    - x`   
\*   ``          
\*   `x # y`     
LineVocab ==
    {
      <<"a", ":">>,
      <<"b", ":", " ", "x">>,
      <<"c", ":", " ", "{", "}">>,
      <<"d", ":", " ", "\"", "t", "r", "u", "e", "\"">>,
      <<"\"", "e", " ", "f", "\"", ":", " ", "1">>,
      <<"-", " ", ":", " ", "x">>,
      <<" ", " ", "a", ":">>,
      <<" ", " ", "b", ":", " ", "x">>,
      <<" ", " ", "-", " ", ":", " ", "x">>,
      <<" ", " ", "-", " ", "x">>,
      <<" ", " ", "-", " ", "a", ":">>,
      <<" ", " ", "-">>,
      <<" ", " ", "g", ":", " ", "[", "]">>,
      <<" ", " ", " ", " ", "b", ":", " ", "x">>,
      <<" ", " ", " ", " ", "a", ":">>,
      <<" ", " ", " ", " ", "-", " ", "x">>,
      <<>>,
      <<"x", " ", "#", " ", "y">>
    }

RECURSIVE textsUpTo(_)
textsUpTo(n) ==
    IF n = 0 THEN {<<>>}
    ELSE textsUpTo(n - 1)
         \cup {Append(ls, l) : ls \in {t \in textsUpTo(n - 1) : Len(t) = n - 1}, l \in LineVocab}

InputTexts == {join(ls, <<"\n">>) : ls \in textsUpTo(MaxLines)}

\* the pending keys the frames of a stack hold
pendingOf(stk) ==
    {<<stk[i].container, stk[i].pending.key, stk[i].pending.line>> :
        i \in {j \in 1..Len(stk) : stk[j].pending.set}}

\* parseYAML has split its text and set up the stack with the root frame
InitParse ==
    /\ text \in InputTexts
    /\ lines = filteredLines(text)
    /\ index = 0
    /\ stack = initParse.stack
    /\ pheap = initParse.heap
    /\ perr = NoError
    /\ recorded = {}
    /\ tree = Null
    /\ yaml = <<>>
    /\ back = Null
    /\ pc = "lines"
    /\ IdleGrid

\* one turn of the for loop: the line is handled, or the call throws
ParseLine ==
    /\ pc = "lines"
    /\ index < Len(lines)
    /\ LET ps == parseLine([heap |-> pheap, stack |-> stack, err |-> perr],
                           lines[index + 1], index + 1)
       IN  /\ stack' = ps.stack
           /\ pheap' = ps.heap
           /\ perr' = ps.err
           /\ recorded' = recorded \cup pendingOf(ps.stack)
           /\ IF ps.err = NoError
              THEN index' = index + 1 /\ pc' = "lines"
              ELSE index' = index /\ pc' = "threw"
    /\ UNCHANGED <<text, lines, tree, yaml, back>>
    /\ UNCHANGED gridVars

\* the loop is over: unwind the stack and return the root container
ParseReturn ==
    /\ pc = "lines"
    /\ index = Len(lines)
    /\ LET ps == unwind([heap |-> pheap, stack |-> stack, err |-> perr])
       IN  /\ stack' = ps.stack
           /\ pheap' = ps.heap
           /\ tree' = parseResult(ps)
    /\ pc' = "returned"
    /\ UNCHANGED <<text, lines, index, perr, recorded, yaml, back>>
    /\ UNCHANGED gridVars

\* the caller serializes the tree it got
StringifyTree ==
    /\ pc = "returned"
    /\ yaml' = stringifyYAML(tree, 2, 0)
    /\ pc' = "stringified"
    /\ UNCHANGED <<text, lines, index, stack, pheap, perr, recorded, tree, back>>
    /\ UNCHANGED gridVars

\* and parses the text again
ReparseText ==
    /\ pc = "stringified"
    /\ back' = parseYAML(yaml)
    /\ pc' = "reparsed"
    /\ UNCHANGED <<text, lines, index, stack, pheap, perr, recorded, tree, yaml>>
    /\ UNCHANGED gridVars

NextParse == ParseLine \/ ParseReturn \/ StringifyTree \/ ReparseText

SpecParse == InitParse /\ [][NextParse]_vars

(***************************************************************************)
(* processGrid as a state machine: the validation of the arguments, the    *)
(* two clones, then for every room the steps of the forEach callback       *)
(* (findExistingStack, the three steps of deepApplyTemplate,               *)
(* replaceOrAppend and report.push), and the final stringifyYAML.          *)
(***************************************************************************)
\* a grid without slots:
\*   |type: grid
\*   |cards: []
Doc_Empty ==
    join(<<
        <<"t", "y", "p", "e", ":", " ", "g", "r", "i", "d">>,
        <<"c", "a", "r", "d", "s", ":", " ", "[", "]">>
    >>, <<"\n">>)

\* a plain card, a pop-up for Z and a pop-up for K:
\*   |type: grid
\*   |cards:
\*   |  - type: x
\*   |  - type: vertical-stack
\*   |    cards:
\*   |      - type: custom:bubble-card
\*   |        card_type: pop-up
\*   |        name: Z
\*   |        hash: "#z-popup"
\*   |        area: z
\*   |  - type: vertical-stack
\*   |    cards:
\*   |      - type: custom:bubble-card
\*   |        card_type: pop-up
\*   |        name: K
\*   |        hash: "#k-popup"
\*   |        area: k
Doc_One ==
    join(<<
        <<"t", "y", "p", "e", ":", " ", "g", "r", "i", "d">>,
        <<"c", "a", "r", "d", "s", ":">>,
        <<" ", " ", "-", " ", "t", "y", "p", "e", ":", " ", "x">>,
        <<" ", " ", "-", " ", "t", "y", "p", "e", ":", " ", "v", "e", "r", "t", "i", "c", "a", "l", "-", "s", "t", "a", "c", "k">>,
        <<" ", " ", " ", " ", "c", "a", "r", "d", "s", ":">>,
        <<" ", " ", " ", " ", " ", " ", "-", " ", "t", "y", "p", "e", ":", " ", "c", "u", "s", "t", "o", "m", ":", "b", "u", "b", "b", "l", "e", "-", "c", "a", "r", "d">>,
        <<" ", " ", " ", " ", " ", " ", " ", " ", "c", "a", "r", "d", "_", "t", "y", "p", "e", ":", " ", "p", "o", "p", "-", "u", "p">>,
        <<" ", " ", " ", " ", " ", " ", " ", " ", "n", "a", "m", "e", ":", " ", "Z">>,
        <<" ", " ", " ", " ", " ", " ", " ", " ", "h", "a", "s", "h", ":", " ", "\"", "#", "z", "-", "p", "o", "p", "u", "p", "\"">>,
        <<" ", " ", " ", " ", " ", " ", " ", " ", "a", "r", "e", "a", ":", " ", "z">>,
        <<" ", " ", "-", " ", "t", "y", "p", "e", ":", " ", "v", "e", "r", "t", "i", "c", "a", "l", "-", "s", "t", "a", "c", "k">>,
        <<" ", " ", " ", " ", "c", "a", "r", "d", "s", ":">>,
        <<" ", " ", " ", " ", " ", " ", "-", " ", "t", "y", "p", "e", ":", " ", "c", "u", "s", "t", "o", "m", ":", "b", "u", "b", "b", "l", "e", "-", "c", "a", "r", "d">>,
        <<" ", " ", " ", " ", " ", " ", " ", " ", "c", "a", "r", "d", "_", "t", "y", "p", "e", ":", " ", "p", "o", "p", "-", "u", "p">>,
        <<" ", " ", " ", " ", " ", " ", " ", " ", "n", "a", "m", "e", ":", " ", "K">>,
        <<" ", " ", " ", " ", " ", " ", " ", " ", "h", "a", "s", "h", ":", " ", "\"", "#", "k", "-", "p", "o", "p", "u", "p", "\"">>,
        <<" ", " ", " ", " ", " ", " ", " ", " ", "a", "r", "e", "a", ":", " ", "k">>
    >>, <<"\n">>)

\* three pop-ups that all stand for K, with a plain card between them:
\*   |type: grid
\*   |cards:
\*   |  - type: vertical-stack
\*   |    cards:
\*   |      - type: custom:bubble-card
\*   |        card_type: pop-up
\*   |        name: K
\*   |        hash: "#k-popup"
\*   |        area: k
\*   |  - type: x
\*   |  - type: vertical-stack
\*   |    cards:
\*   |      - type: custom:bubble-card
\*   |        card_type: pop-up
\*   |        name: " k"
\*   |        hash: "#k-popup"
\*   |      - target:
\*   |          area_id: k
\*   |  - type: vertical-stack
\*   |    cards:
\*   |      - type: custom:bubble-card
\*   |        card_type: pop-up
\*   |        name: K
\*   |        hash: "#k-popup"
\*   |        area: k
Doc_Dup ==
    join(<<
        <<"t", "y", "p", "e", ":", " ", "g", "r", "i", "d">>,
        <<"c", "a", "r", "d", "s", ":">>,
        <<" ", " ", "-", " ", "t", "y", "p", "e", ":", " ", "v", "e", "r", "t", "i", "c", "a", "l", "-", "s", "t", "a", "c", "k">>,
        <<" ", " ", " ", " ", "c", "a", "r", "d", "s", ":">>,
        <<" ", " ", " ", " ", " ", " ", "-", " ", "t", "y", "p", "e", ":", " ", "c", "u", "s", "t", "o", "m", ":", "b", "u", "b", "b", "l", "e", "-", "c", "a", "r", "d">>,
        <<" ", " ", " ", " ", " ", " ", " ", " ", "c", "a", "r", "d", "_", "t", "y", "p", "e", ":", " ", "p", "o", "p", "-", "u", "p">>,
        <<" ", " ", " ", " ", " ", " ", " ", " ", "n", "a", "m", "e", ":", " ", "K">>,
        <<" ", " ", " ", " ", " ", " ", " ", " ", "h", "a", "s", "h", ":", " ", "\"", "#", "k", "-", "p", "o", "p", "u", "p", "\"">>,
        <<" ", " ", " ", " ", " ", " ", " ", " ", "a", "r", "e", "a", ":", " ", "k">>,
        <<" ", " ", "-", " ", "t", "y", "p", "e", ":", " ", "x">>,
        <<" ", " ", "-", " ", "t", "y", "p", "e", ":", " ", "v", "e", "r", "t", "i", "c", "a", "l", "-", "s", "t", "a", "c", "k">>,
        <<" ", " ", " ", " ", "c", "a", "r", "d", "s", ":">>,
        <<" ", " ", " ", " ", " ", " ", "-", " ", "t", "y", "p", "e", ":", " ", "c", "u", "s", "t", "o", "m", ":", "b", "u", "b", "b", "l", "e", "-", "c", "a", "r", "d">>,
        <<" ", " ", " ", " ", " ", " ", " ", " ", "c", "a", "r", "d", "_", "t", "y", "p", "e", ":", " ", "p", "o", "p", "-", "u", "p">>,
        <<" ", " ", " ", " ", " ", " ", " ", " ", "n", "a", "m", "e", ":", " ", "\"", " ", "k", "\"">>,
        <<" ", " ", " ", " ", " ", " ", " ", " ", "h", "a", "s", "h", ":", " ", "\"", "#", "k", "-", "p", "o", "p", "u", "p", "\"">>,
        <<" ", " ", " ", " ", " ", " ", "-", " ", "t", "a", "r", "g", "e", "t", ":">>,
        <<" ", " ", " ", " ", " ", " ", " ", " ", " ", " ", "a", "r", "e", "a", "_", "i", "d", ":", " ", "k">>,
        <<" ", " ", "-", " ", "t", "y", "p", "e", ":", " ", "v", "e", "r", "t", "i", "c", "a", "l", "-", "s", "t", "a", "c", "k">>,
        <<" ", " ", " ", " ", "c", "a", "r", "d", "s", ":">>,
        <<" ", " ", " ", " ", " ", " ", "-", " ", "t", "y", "p", "e", ":", " ", "c", "u", "s", "t", "o", "m", ":", "b", "u", "b", "b", "l", "e", "-", "c", "a", "r", "d">>,
        <<" ", " ", " ", " ", " ", " ", " ", " ", "c", "a", "r", "d", "_", "t", "y", "p", "e", ":", " ", "p", "o", "p", "-", "u", "p">>,
        <<" ", " ", " ", " ", " ", " ", " ", " ", "n", "a", "m", "e", ":", " ", "K">>,
        <<" ", " ", " ", " ", " ", " ", " ", " ", "h", "a", "s", "h", ":", " ", "\"", "#", "k", "-", "p", "o", "p", "u", "p", "\"">>,
        <<" ", " ", " ", " ", " ", " ", " ", " ", "a", "r", "e", "a", ":", " ", "k">>
    >>, <<"\n">>)

\* not a grid:
\*   |type: panel
\*   |cards: []
Doc_BadType ==
    join(<<
        <<"t", "y", "p", "e", ":", " ", "p", "a", "n", "e", "l">>,
        <<"c", "a", "r", "d", "s", ":", " ", "[", "]">>
    >>, <<"\n">>)

\* a grid without a cards field:
\*   |type: grid
Doc_NoCards ==
    join(<<
        <<"t", "y", "p", "e", ":", " ", "g", "r", "i", "d">>
    >>, <<"\n">>)

\* a line parseYAML rejects:
\*   |type: grid
\*   |cards
Doc_Unparsable ==
    join(<<
        <<"t", "y", "p", "e", ":", " ", "g", "r", "i", "d">>,
        <<"c", "a", "r", "d", "s">>
    >>, <<"\n">>)

ValidGrids == {Doc_Empty, Doc_One, Doc_Dup}

InvalidGrids == {Doc_BadType, Doc_NoCards, Doc_Unparsable}

\* a template with every placeholder and every identity field:
\*   |type: vertical-stack
\*   |cards:
\*   |  - type: custom:bubble-card
\*   |    card_type: pop-up
\*   |    name: __AREA_NAME__
\*   |    hash: __HASH__
\*   |    icon: __ICON__
\*   |  - area: __AREA_ID__
\*   |    target:
\*   |      entity_id: e
Tpl_Full ==
    join(<<
        <<"t", "y", "p", "e", ":", " ", "v", "e", "r", "t", "i", "c", "a", "l", "-", "s", "t", "a", "c", "k">>,
        <<"c", "a", "r", "d", "s", ":">>,
        <<" ", " ", "-", " ", "t", "y", "p", "e", ":", " ", "c", "u", "s", "t", "o", "m", ":", "b", "u", "b", "b", "l", "e", "-", "c", "a", "r", "d">>,
        <<" ", " ", " ", " ", "c", "a", "r", "d", "_", "t", "y", "p", "e", ":", " ", "p", "o", "p", "-", "u", "p">>,
        <<" ", " ", " ", " ", "n", "a", "m", "e", ":", " ", "_", "_", "A", "R", "E", "A", "_", "N", "A", "M", "E", "_", "_">>,
        <<" ", " ", " ", " ", "h", "a", "s", "h", ":", " ", "_", "_", "H", "A", "S", "H", "_", "_">>,
        <<" ", " ", " ", " ", "i", "c", "o", "n", ":", " ", "_", "_", "I", "C", "O", "N", "_", "_">>,
        <<" ", " ", "-", " ", "a", "r", "e", "a", ":", " ", "_", "_", "A", "R", "E", "A", "_", "I", "D", "_", "_">>,
        <<" ", " ", " ", " ", "t", "a", "r", "g", "e", "t", ":">>,
        <<" ", " ", " ", " ", " ", " ", "e", "n", "t", "i", "t", "y", "_", "i", "d", ":", " ", "e">>
    >>, <<"\n">>)

\* a valid template whose first card has no name, hash or area:
\*   |type: vertical-stack
\*   |cards:
\*   |  - type: custom:bubble-card
\*   |    card_type: pop-up
\*   |  - title: __AREA_NAME__
Tpl_Bare ==
    join(<<
        <<"t", "y", "p", "e", ":", " ", "v", "e", "r", "t", "i", "c", "a", "l", "-", "s", "t", "a", "c", "k">>,
        <<"c", "a", "r", "d", "s", ":">>,
        <<" ", " ", "-", " ", "t", "y", "p", "e", ":", " ", "c", "u", "s", "t", "o", "m", ":", "b", "u", "b", "b", "l", "e", "-", "c", "a", "r", "d">>,
        <<" ", " ", " ", " ", "c", "a", "r", "d", "_", "t", "y", "p", "e", ":", " ", "p", "o", "p", "-", "u", "p">>,
        <<" ", " ", "-", " ", "t", "i", "t", "l", "e", ":", " ", "_", "_", "A", "R", "E", "A", "_", "N", "A", "M", "E", "_", "_">>
    >>, <<"\n">>)

\* a valid template without placeholders: the heuristics bind its fields:
\*   |type: vertical-stack
\*   |area: x
\*   |cards:
\*   |  - type: custom:bubble-card
\*   |    card_type: pop-up
\*   |    name: n
\*   |    hash: h
Tpl_Fixed ==
    join(<<
        <<"t", "y", "p", "e", ":", " ", "v", "e", "r", "t", "i", "c", "a", "l", "-", "s", "t", "a", "c", "k">>,
        <<"a", "r", "e", "a", ":", " ", "x">>,
        <<"c", "a", "r", "d", "s", ":">>,
        <<" ", " ", "-", " ", "t", "y", "p", "e", ":", " ", "c", "u", "s", "t", "o", "m", ":", "b", "u", "b", "b", "l", "e", "-", "c", "a", "r", "d">>,
        <<" ", " ", " ", " ", "c", "a", "r", "d", "_", "t", "y", "p", "e", ":", " ", "p", "o", "p", "-", "u", "p">>,
        <<" ", " ", " ", " ", "n", "a", "m", "e", ":", " ", "n">>,
        <<" ", " ", " ", " ", "h", "a", "s", "h", ":", " ", "h">>
    >>, <<"\n">>)

\* not a vertical-stack:
\*   |type: grid
\*   |cards: []
Tpl_BadRoot ==
    join(<<
        <<"t", "y", "p", "e", ":", " ", "g", "r", "i", "d">>,
        <<"c", "a", "r", "d", "s", ":", " ", "[", "]">>
    >>, <<"\n">>)

\* a stack without cards:
\*   |type: vertical-stack
\*   |cards: []
Tpl_NoCards ==
    join(<<
        <<"t", "y", "p", "e", ":", " ", "v", "e", "r", "t", "i", "c", "a", "l", "-", "s", "t", "a", "c", "k">>,
        <<"c", "a", "r", "d", "s", ":", " ", "[", "]">>
    >>, <<"\n">>)

\* a stack whose first card is no pop-up:
\*   |type: vertical-stack
\*   |cards:
\*   |  - type: x
Tpl_BadFirst ==
    join(<<
        <<"t", "y", "p", "e", ":", " ", "v", "e", "r", "t", "i", "c", "a", "l", "-", "s", "t", "a", "c", "k">>,
        <<"c", "a", "r", "d", "s", ":">>,
        <<" ", " ", "-", " ", "t", "y", "p", "e", ":", " ", "x">>
    >>, <<"\n">>)

ValidTemplates == {Tpl_Full, Tpl_Bare, Tpl_Fixed}

InvalidTemplates == {Tpl_BadRoot, Tpl_NoCards, Tpl_BadFirst}

\* the number of rooms in a list
MaxRooms == 2

\* the elements of a rooms list: three strings ("!" and "" have the empty
\* slug) and a number
RoomNames == {Str(<<"K">>), Str(<<"!">>), Str(<<>>)}

NotAName == Num(<<"5">>)

\* the lists of at most n strings
RECURSIVE listsUpTo(_)
listsUpTo(n) ==
    IF n = 0 THEN {<<>>}
    ELSE listsUpTo(n - 1)
         \cup {Append(l, x) : l \in {m \in listsUpTo(n - 1) : Len(m) = n - 1},
                              x \in RoomNames}

\* JSON.parse(roomsSource): an array of strings, or one whose last element is
\* a number (the elements after a non-string are never read),
RoomLists ==
    {SeqV(l) : l \in listsUpTo(MaxRooms)}
    \cup {SeqV(Append(l, NotAName)) : l \in listsUpTo(MaxRooms - 1)}

\* or another JSON value, or a SyntaxError
InvalidRooms == {MapV(<<>>), ErrV("json", 0)}

\* options.detectBy: the three strategies and an unknown one
DetectBy == KnownStrategies \cup {"entity"}

InsertModes == {"keep-index", "replace"}

\* options.iconMap: undefined, or a map with an icon for K
IconMaps == {Null, MapV(<< <<(<<"K">>), Str(<<"m", "d", "i", ":", "k">>)>> >>)}

OptionsInputs ==
    [indent : {2}, detectBy : DetectBy, insertMode : InsertModes, iconMap : IconMaps]

\* the calls: the combinations of valid arguments (an icon map goes with the
\* template that has an __ICON__), and calls with one invalid argument
Call(g, t, r, o) == [gridSource |-> g, templateSource |-> t, roomsJson |-> r, options |-> o]

optionsFor(t) == {o \in OptionsInputs : o.iconMap = Null \/ t = Tpl_Full}

Calls ==
    UNION {{Call(g, t, r, o) : g \in ValidGrids, r \in RoomLists, o \in optionsFor(t)} :
              t \in ValidTemplates}
    \cup {Call(g, Tpl_Full, SeqV(<<Str(<<"K">>)>>), o) :
              g \in InvalidGrids, o \in OptionsInputs}
    \cup {Call(Doc_One, t, SeqV(<<Str(<<"K">>)>>), o) :
              t \in InvalidTemplates, o \in OptionsInputs}
    \cup {Call(g, t, r, o) : g \in ValidGrids, t \in ValidTemplates, r \in InvalidRooms,
                             o \in {x \in OptionsInputs : x.iconMap = Null}}

\* the Error the checks of lines 550-574 throw for parsed arguments, "none" if none
validationError(g, t, r) ==
    IF isError(g) \/ isError(t) THEN "yaml"
    ELSE IF isError(r) THEN "rooms-json"
    ELSE IF ~isArray(r) THEN "rooms-not-list"
    ELSE IF \/ ~isRecord(g)
            \/ getKey(g, S_type) # Str(S_grid)
            \/ ~isArray(getKey(g, S_cards))
         THEN "grid-invalid"
    ELSE IF ~isRecord(t) \/ getKey(t, S_type) # Str(S_vertical_stack)
         THEN "template-invalid"
    ELSE IF ~isArray(getKey(t, S_cards)) \/ Len(getKey(t, S_cards).v) = 0
         THEN "template-cards"
    ELSE LET firstCard == getKey(t, S_cards).v[1] IN
         IF \/ ~isRecord(firstCard)
            \/ getKey(firstCard, S_type) # Str(S_bubble_card)
            \/ getKey(firstCard, S_card_type) # Str(S_pop_up)
         THEN "template-first-card"
         ELSE "none"

\* the room the forEach callback is running for
roomName == rooms[roomIndex + 1]

InitGrid ==
    /\ \E call \in Calls :
          /\ gridSource = call.gridSource
          /\ templateSource = call.templateSource
          /\ roomsJson = call.roomsJson
          /\ options = call.options
    /\ FreshGrid
    /\ pc = "call"
    /\ IdleParse

\* lines 550-574: both documents are parsed, then every argument is checked
ValidateInputs ==
    /\ pc = "call"
    /\ \E g \in {parseYAML(gridSource)}, t \in {parseYAML(templateSource)} :
          \E e \in {validationError(g, t, roomsJson)} :
             IF e # "none"
             THEN /\ gerr' = e
                  /\ pc' = "failed"
                  /\ UNCHANGED <<heap, grid, template, original, rooms>>
             ELSE \E ag \in {alloc(heap, g)} :
                  \E at \in {alloc(ag.h, t)} :
                     /\ heap' = at.h
                     /\ grid' = ag.val
                     /\ template' = at.val
                     /\ original' = [grid |-> g, template |-> t]
                     /\ rooms' = roomsJson.v
                     /\ pc' = "clone"
                     /\ gerr' = gerr
    /\ UNCHANGED <<gridSource, templateSource, roomsJson, options, gridCopy,
                   templateCopy, roomIndex, areaId, match, applied, issued, report,
                   output>>
    /\ UNCHANGED parseVars

\* lines 575-577: the working tree, the template's copy and the empty report
CloneInputs ==
    /\ pc = "clone"
    /\ LET cg == deepClone(heap, grid)
           ct == deepClone(cg.h, template)
       IN  /\ heap' = ct.h
           /\ gridCopy' = cg.val
           /\ templateCopy' = ct.val
    /\ report' = <<>>
    /\ pc' = "rooms"
    /\ UNCHANGED <<gridSource, templateSource, roomsJson, options, grid, template,
                   original, rooms, roomIndex, areaId, match, applied, issued, output,
                   gerr>>
    /\ UNCHANGED parseVars

\* lines 579-583: the room is checked, slugified and looked up in the working tree
FindStack ==
    /\ pc = "rooms"
    /\ roomIndex < Len(rooms)
    /\ IF roomName.t # "str"
       THEN /\ gerr' = "room-not-string"
            /\ pc' = "failed"
            /\ UNCHANGED <<areaId, match>>
       ELSE LET slug == slugifyArea(roomName.v)
                found == findExistingStack(reify(heap, gridCopy), roomName.v, slug,
                                           options.detectBy)
            IN  /\ areaId' = slug
                /\ IF isError(found)
                   THEN /\ gerr' = found.v[1]
                        /\ pc' = "failed"
                        /\ match' = match
                   ELSE /\ match' = found
                        /\ pc' = "apply"
                        /\ gerr' = gerr
    /\ applied' = NotApplied
    /\ UNCHANGED <<gridSource, templateSource, roomsJson, options, heap, grid, template,
                   original, gridCopy, templateCopy, rooms, roomIndex, issued, report,
                   output>>
    /\ UNCHANGED parseVars

\* line 523: deepApplyTemplate clones the template
ApplyClone ==
    /\ pc = "apply"
    /\ LET cloned == deepClone(heap, templateCopy)
       IN  /\ heap' = cloned.h
           /\ applied' = [NotApplied EXCEPT !.stack = cloned.val]
    /\ pc' = "substitute"
    /\ UNCHANGED <<gridSource, templateSource, roomsJson, options, grid, template,
                   original, gridCopy, templateCopy, rooms, roomIndex, areaId, match,
                   issued, report, output, gerr>>
    /\ UNCHANGED parseVars

\* lines 524-530: the substitution pass
ApplySubstitute ==
    /\ pc = "substitute"
    /\ LET done == replacePlaceholders(heap, applied.stack,
                                       replacementsFor(roomName.v, areaId),
                                       iconValueFor(options.iconMap, roomName.v))
       IN  /\ heap' = done.h
           /\ applied' = [applied EXCEPT !.replacedPlaceholders = done.replaced,
                                         !.iconApplied = done.iconApplied]
    /\ pc' = "heuristics"
    /\ UNCHANGED <<gridSource, templateSource, roomsJson, options, grid, template,
                   original, gridCopy, templateCopy, rooms, roomIndex, areaId, match,
                   issued, report, output, gerr>>
    /\ UNCHANGED parseVars

\* lines 531-532: the heuristics, and deepApplyTemplate returns
ApplyHeuristics ==
    /\ pc = "heuristics"
    /\ heap' = applyHeuristics(heap, applied.stack, roomName.v, areaId)
    /\ pc' = "splice"
    /\ UNCHANGED <<gridSource, templateSource, roomsJson, options, grid, template,
                   original, gridCopy, templateCopy, rooms, roomIndex, areaId, match,
                   applied, issued, report, output, gerr>>
    /\ UNCHANGED parseVars

\* lines 585-593: the stack goes into the working tree and the report gets its entry
Splice ==
    /\ pc = "splice"
    /\ LET spliced == replaceOrAppend(heap, gridCopy, match.index, applied.stack,
                                      options.insertMode)
       IN  /\ heap' = spliced.h
           /\ report' = Append(report,
                  [room |-> roomName.v,
                   areaId |-> areaId,
                   action |-> IF match.index = NoIndex THEN "created" ELSE "updated",
                   index |-> spliced.index,
                   duplicates |-> match.duplicates,
                   placeholdersUsed |-> applied.replacedPlaceholders])
    /\ issued' = issued \cup reach(heap, applied.stack)
    /\ roomIndex' = roomIndex + 1
    /\ pc' = "rooms"
    /\ UNCHANGED <<gridSource, templateSource, roomsJson, options, grid, template,
                   original, gridCopy, templateCopy, rooms, areaId, match, applied,
                   output, gerr>>
    /\ UNCHANGED parseVars

\* lines 595-596: every room is done, the working tree is serialized
ReturnOutput ==
    /\ pc = "rooms"
    /\ roomIndex = Len(rooms)
    /\ output' = [yaml |-> stringifyYAML(reify(heap, gridCopy), options.indent, 0),
                  report |-> report]
    /\ pc' = "done"
    /\ UNCHANGED <<gridSource, templateSource, roomsJson, options, heap, grid, template,
                   original, gridCopy, templateCopy, rooms, roomIndex, areaId, match,
                   applied, issued, report, gerr>>
    /\ UNCHANGED parseVars

NextGrid ==
    \/ ValidateInputs
    \/ CloneInputs
    \/ FindStack
    \/ ApplyClone
    \/ ApplySubstitute
    \/ ApplyHeuristics
    \/ Splice
    \/ ReturnOutput

SpecGrid == InitGrid /\ [][NextGrid]_vars

(***************************************************************************)
(* C1.  Round trip: for every tree T that parseYAML returns,               *)
(* parseYAML(stringifyYAML(T)) returns, without an error, a tree           *)
(* structurally equal to T.                                                *)
(***************************************************************************)
C1_RoundTrip ==
    pc = "reparsed" => (~isError(back) /\ deepEqual(back, tree))

(***************************************************************************)
(* C6.  A sequence-item line `- : x` (an empty key before the colon) makes *)
(* parseYAML throw an Error that names that line, wherever the line is,    *)
(* a valid sequence context included; no tree is returned.                 *)
(***************************************************************************)
isEmptyKeyItem(line) ==
    LET trimmed == trim(line) IN
    /\ startsWith(trimmed, <<"-">>)
    /\ startsWith(trim(sliceFrom(trimmed, 1)), <<":">>)

\* the for loop has reached line i
reachedLine(i) == index >= i \/ (pc = "threw" /\ index + 1 = i)

C6_EmptyKeyItemThrows ==
    \A i \in 1..Len(lines) :
        (isEmptyKeyItem(lines[i]) /\ reachedLine(i))
            => (pc = "threw" /\ perr.v[2] = i)

(***************************************************************************)
(* C7.  Every key recorded as a pending key is bound, in the tree that is  *)
(* returned, in the container of the frame that held it: to a nested block *)
(* when the next non-blank line is more indented, to an empty mapping      *)
(* otherwise (equal or smaller indent, or the end of the input).           *)
(***************************************************************************)
\* the non-blank lines after line i
laterLines(i) == {j \in (i + 1)..Len(lines) : ~isWhitespaceOnly(lines[j])}

\* the line after line i that the parser handles next is more indented
blockFollows(i) ==
    /\ laterLines(i) # {}
    /\ LET next == CHOOSE j \in laterLines(i) : \A k \in laterLines(i) : j <= k
       IN  LeadWS(lines[next]) > LeadWS(lines[i])

\* the returned tree holds container c, and c binds key to a container
boundInResult(c, key) ==
    /\ c \in reach(pheap, Ref(1))
    /\ pheap[c].t = "map"
    /\ \E e \in 1..Len(pheap[c].v) : pheap[c].v[e][1] = key /\ isRef(pheap[c].v[e][2])

boundValue(c, key) ==
    reify(pheap, pheap[c].v[CHOOSE e \in 1..Len(pheap[c].v) : pheap[c].v[e][1] = key][2])

C7_PendingKeyBound ==
    pc = "returned" =>
        \A r \in recorded :
            /\ boundInResult(r[1], r[2])
            /\ ~blockFollows(r[3]) => boundValue(r[1], r[2]) = MapV(<<>>)

(***************************************************************************)
(* C2.  Match reporting: for a known strategy, findExistingStack returns   *)
(* as index the lowest position whose slot is a pop-up stack satisfying    *)
(* the strategy's predicate (no index when no slot matches) and as         *)
(* duplicates exactly the other matching positions, in ascending order.    *)
(***************************************************************************)
\* the slots of the working tree
cardsNow == getKey(reify(heap, gridCopy), S_cards).v

\* the positions (0-based) of the working tree's slots that match the room
matchingPositions ==
    {i \in 0..(Len(cardsNow) - 1) :
        /\ isBubblePopup(cardsNow[i + 1])
        /\ strategyMatch(options.detectBy, cardsNow[i + 1], roomName.v, areaId)}

C2_MatchReporting ==
    (pc = "apply" /\ options.detectBy \in KnownStrategies) =>
        LET M == matchingPositions
            dups == match.duplicates
        IN  IF M = {}
            THEN match.index = NoIndex /\ dups = <<>>
            ELSE /\ match.index \in M
                 /\ \A i \in M : match.index <= i
                 /\ {dups[k] : k \in 1..Len(dups)} = M \ {match.index}
                 /\ \A k \in 1..(Len(dups) - 1) : dups[k] < dups[k + 1]

\* a scan that found three matching slots
C2_Witness ==
    /\ pc = "apply"
    /\ options.detectBy \in KnownStrategies
    /\ match.index = 0
    /\ match.duplicates = <<2, 3>>

(***************************************************************************)
(* C3.  Rooms are handled in list order, and the splice of each room       *)
(* overwrites the matched position (entry "updated" with that index, slot  *)
(* count unchanged) if findExistingStack finds a match in the working tree *)
(* at that moment, and otherwise appends the stack at the end (entry       *)
(* "created" with index = the slot count before, slot count plus one); no  *)
(* other position changes.                                                 *)
(***************************************************************************)
C3_Step ==
    /\ \A k \in 1..Len(report') : report'[k].room = rooms'[k].v
    /\ (pc = "splice" /\ pc' = "rooms") =>
          LET found == findExistingStack(reify(heap, gridCopy), roomName.v, areaId,
                                         options.detectBy)
              entry == report'[Len(report')]
              spliced == reify(heap, applied.stack)
              old == cardsNow
              new == cardsNow'
          IN  /\ Len(report') = Len(report) + 1
              /\ Len(report') = roomIndex'
              /\ IF found.index # NoIndex
                 THEN /\ entry.action = "updated"
                      /\ entry.index = found.index
                      /\ Len(new) = Len(old)
                      /\ new[found.index + 1] = spliced
                      /\ \A i \in 1..Len(old) : i # found.index + 1 => new[i] = old[i]
                 ELSE /\ entry.action = "created"
                      /\ entry.index = Len(old)
                      /\ Len(new) = Len(old) + 1
                      /\ new[Len(new)] = spliced
                      /\ \A i \in 1..Len(old) : new[i] = old[i]

C3_SplicePolicy == [][C3_Step]_vars

\* a grid of three slots, one of them matching: the first room updates it in
\* place, the second is appended at the end
C3_Witness ==
    /\ pc = "done"
    /\ Len(report) = 2
    /\ report[1].action = "updated" /\ report[1].index = 2
    /\ report[2].action = "created" /\ report[2].index = 3
    /\ Len(cardsNow) = 4

(***************************************************************************)
(* C4.  Every validation failure (the grid's root type, its missing cards, *)
(* an invalid template, rooms that are no array, a room that is no string) *)
(* is detected before any stack has been spliced into the working tree,    *)
(* and the call returns nothing.                                           *)
(***************************************************************************)
ValidationFailures ==
    {"grid-invalid", "template-invalid", "template-cards", "template-first-card",
     "rooms-not-list", "room-not-string"}

C4_ValidationBeforeSplice ==
    (pc = "failed" /\ gerr \in ValidationFailures) =>
        /\ issued = {}
        /\ roomIndex = 0
        /\ output = Null

(***************************************************************************)
(* C5.  With a detection strategy other than "name", "hash" and "area",    *)
(* findExistingStack never returns a MatchResult, and processGrid never    *)
(* creates or updates a slot.                                              *)
(***************************************************************************)
C5_UnknownStrategyFails ==
    (options.detectBy \notin KnownStrategies) =>
        /\ pc \notin {"apply", "substitute", "heuristics", "splice"}
        /\ issued = {}

(***************************************************************************)
(* C8.  Idempotence of templating, as the spec has it: with insertMode     *)
(* "replace", processing a room a second time matches the slot spliced the *)
(* first time, overwrites that index and leaves the slots structurally     *)
(* equal to what they were after the first processing.                     *)
(***************************************************************************)
\* the splice of a room that is the room processed just before it
secondSplice ==
    /\ pc = "splice" /\ pc' = "rooms"
    /\ roomIndex >= 1
    /\ rooms[roomIndex + 1] = rooms[roomIndex]
    /\ options.insertMode = "replace"

sameSlotAgain ==
    /\ match.index = report[roomIndex].index
    /\ report'[roomIndex + 1].index = report[roomIndex].index
    /\ report'[roomIndex + 1].action = "updated"
    /\ cardsNow' = cardsNow

hasAreaField(node) ==
    isRecord(node) /\ (hasKey(node, S_area) \/ isRecord(getKey(node, S_target)))

RECURSIVE anyAreaField(_)
anyAreaField(node) ==
    \/ hasAreaField(node)
    \/ /\ isRecord(node)
       /\ \E i \in 1..Len(node.v) : anyAreaField(node.v[i][2])
    \/ /\ isArray(node)
       /\ \E i \in 1..Len(node.v) : anyAreaField(node.v[i])

carriesIdentity ==
    LET first == getKey(original.template, S_cards).v[1] IN
    CASE options.detectBy = "name" ->
             hasKey(first, S_name) \/ normaliseRoom(roomName.v) = <<>>
      [] options.detectBy = "hash" -> hasKey(first, S_hash)
      [] options.detectBy = "area" ->
             \/ hasAreaField(original.template)
             \/ areaId # <<>> /\ anyAreaField(original.template)
      [] OTHER -> FALSE

C9_Isolated ==
    /\ grid # Null =>
          /\ reify(heap, grid) = original.grid
          /\ reify(heap, template) = original.template
    /\ templateCopy # Null => reify(heap, templateCopy) = original.template
    /\ applied.stack # Null =>
          LET fresh == reach(heap, applied.stack) IN
          /\ fresh \cap reach(heap, template) = {}
          /\ fresh \cap reach(heap, templateCopy) = {}
          /\ fresh \cap reach(heap, grid) = {}
          /\ pc \in {"substitute", "heuristics", "splice"} =>
                /\ fresh \cap issued = {}
                /\ fresh \cap reach(heap, gridCopy) = {}

C9_Step ==
    /\ C9_Isolated'
    /\ pc \in {"apply", "substitute", "heuristics"} => cardsNow' = cardsNow

C9_TemplateIsolation == [][C9_Step]_vars

\* the template has been applied for a second room, with substitutions, after
\* the stack of the first went into the working tree
C9_Witness ==
    /\ pc = "splice"
    /\ roomIndex = 1
    /\ issued # {}
    /\ applied.replacedPlaceholders

(***************************************************************************)
(* C10.  Placeholder substitution: after the substitution pass, every      *)
(* string of the template that is exactly __AREA_NAME__, __AREA_ID__ or    *)
(* __HASH__ is the room, its slug and #<slug>-popup, __ICON__ is the       *)
(* room's icon if the icon map has one, and nothing else has changed; for  *)
(* every room, the empty one and those with an empty slug included.        *)
(***************************************************************************)
RECURSIVE substituted(_, _, _, _)
substituted(x, room, slug, iconMap) ==
    IF x.t = "str"
    THEN CASE x.v = P_AREA_NAME -> Str(room)
           [] x.v = P_AREA_ID -> Str(slug)
           [] x.v = P_HASH -> Str(hashFor(slug))
           [] x.v = P_ICON /\ hasKey(iconMap, room) -> getKey(iconMap, room)
           [] OTHER -> x
    ELSE IF x.t = "seq"
    THEN SeqV([i \in 1..Len(x.v) |-> substituted(x.v[i], room, slug, iconMap)])
    ELSE IF x.t = "map"
    THEN MapV([i \in 1..Len(x.v) |->
                 <<x.v[i][1], substituted(x.v[i][2], room, slug, iconMap)>>])
    ELSE x

C10_Substitution ==
    pc = "heuristics" =>
        reify(heap, applied.stack)
            = substituted(original.template, roomName.v, areaId, options.iconMap)

(***************************************************************************)
(* C11.  Frame-stack invariant of parseYAML: in every state of a call the  *)
(* stack is non-empty and its bottom frame is the frame of the document    *)
(* root (the mapping the call started with, indent -1), which is never     *)
(* popped; and for every frame above the root, the indent of the frame     *)
(* directly below it is strictly less than the indent of the line during   *)
(* whose processing the upper frame was pushed.                            *)
(***************************************************************************)
\* the frame the call started with is at the bottom of the stack
rootAtBottom ==
    /\ Len(stack) >= 1
    /\ stack[1].type = "object"
    /\ stack[1].container = initParse.stack[1].container
    /\ stack[1].indent = -1
    /\ stack[1].line = 0

\* the indent of the line that pushed frame i
openedAt(i) == LeadWS(lines[stack[i].line])

C11_FrameStack ==
    pc \in {"lines", "threw", "returned", "stringified", "reparsed"} =>
        /\ rootAtBottom
        /\ \A i \in 2..Len(stack) :
              /\ stack[i].line \in 1..Len(lines)
              /\ stack[i - 1].indent < openedAt(i)

\* a list item with a pending key, then a line nested in it: two frames of
\* the same indent follow each other above the array frame
C11_Witness ==
    /\ pc = "lines"
    /\ index = 3
    /\ Len(stack) = 4
    /\ stack[2].type = "array"
    /\ stack[3].indent = stack[4].indent
    /\ stack[3].indent < openedAt(4)

====
